---- MODULE Spec2Model ----
(***************************************************************************)
(* The items REST API over a warehouse table: the HTTP controller          *)
(* (controllers/crudController), the item repository                       *)
(* (repositories/baseRepository, the PARSE_JSON revision) and the query    *)
(* executor (services/bigquery).                                           *)
(*                                                                         *)
(* Every request runs in its own slot.  A handler is cut at its awaits:    *)
(* a JavaScript segment runs atomically (one event-loop turn), a statement *)
(* is executed atomically by the warehouse at some later instant, and      *)
(* other requests may run in between.  The segment that follows a          *)
(* statement is run together with the statement's completion when it reads *)
(* no shared state (it only builds the response or issues the next         *)
(* statement); the segment after the controller's existence read is a step *)
(* of its own, because repository.update reads the clock in it.            *)
(*                                                                         *)
(* Timestamps are the clock's value: toISOString is injective and          *)
(* monotone on instants, and the claims only compare instants.             *)
(*                                                                         *)
(* Spec is the requests of a listening server, MockSpec the same with      *)
(* ENABLE_MOCK_MODE=true, and StartupSpec the start of the server process  *)
(* (server.js): startServer, ensureTableExists and app.listen.             *)
(***************************************************************************)
EXTENDS Integers, Sequences, FiniteSets, TLC

(***************************************************************************)
(* Bounds of the model.                                                    *)
(***************************************************************************)
MaxProcs == 2
MaxOps == 3
MaxIds == 2
MaxClock == 1
MaxRuns == 3

(***************************************************************************)
(* JavaScript values.  A string is its sequence of characters.             *)
(***************************************************************************)
Undefined == [t |-> "undefined"]
JNull == [t |-> "null"]
JBool(b) == [t |-> "bool", b |-> b]
JNum(n) == [t |-> "num", n |-> n]
JStr(s) == [t |-> "str", s |-> s]
JArr(xs) == [t |-> "arr", xs |-> xs]
JObj(kv) == [t |-> "obj", kv |-> kv]
SyntaxError == [t |-> "error"]

\* ToBoolean: what `!name`, `data.data ? :` and `data.data || null` test.
Truthy(v) ==
  /\ v.t \notin {"undefined", "null", "error"}
  /\ ~(v.t = "bool" /\ v.b = FALSE)
  /\ ~(v.t = "num" /\ v.n = 0)
  /\ ~(v.t = "str" /\ v.s = <<>>)

(***************************************************************************)
(* JSON.stringify on JSON values (no undefined, no functions): compact     *)
(* text, object keys in insertion order.                                   *)
(***************************************************************************)
Digit(d) == <<"0", "1", "2", "3", "4", "5", "6", "7", "8", "9">>[d + 1]

RECURSIVE NatDigits(_)
NatDigits(n) == IF n < 10 THEN <<Digit(n)>> ELSE NatDigits(n \div 10) \o <<Digit(n % 10)>>

NumText(n) == IF n < 0 THEN <<"-">> \o NatDigits(-n) ELSE NatDigits(n)

Quote(s) == <<"\"">> \o s \o <<"\"">>

RECURSIVE JsonStringify(_)
RECURSIVE StringifyItems(_)
RECURSIVE StringifyMembers(_)
StringifyItems(xs) ==
  IF xs = <<>> THEN <<>>
  ELSE JsonStringify(Head(xs))
       \o (IF Tail(xs) = <<>> THEN <<>> ELSE <<",">> \o StringifyItems(Tail(xs)))
StringifyMembers(kv) ==
  IF kv = <<>> THEN <<>>
  ELSE Quote(Head(kv)[1]) \o <<":">> \o JsonStringify(Head(kv)[2])
       \o (IF Tail(kv) = <<>> THEN <<>> ELSE <<",">> \o StringifyMembers(Tail(kv)))
JsonStringify(v) ==
  CASE v.t = "null" -> <<"n", "u", "l", "l">>
    [] v.t = "bool" -> IF v.b THEN <<"t", "r", "u", "e">> ELSE <<"f", "a", "l", "s", "e">>
    [] v.t = "num" -> NumText(v.n)
    [] v.t = "str" -> Quote(v.s)
    [] v.t = "arr" -> <<"[">> \o StringifyItems(v.xs) \o <<"]">>
    [] v.t = "obj" -> <<"{">> \o StringifyMembers(v.kv) \o <<"}">>

(***************************************************************************)
(* JSON.parse / PARSE_JSON: a recursive-descent parser of compact JSON     *)
(* text.  A parse step answers [ok, v, i]: the value read and the index    *)
(* after it.  Text that is not JSON is a SyntaxError.                      *)
(***************************************************************************)
DigitChars == {"0", "1", "2", "3", "4", "5", "6", "7", "8", "9"}
DigitVal(c) == CHOOSE d \in 0..9 : Digit(d) = c
Bad == [ok |-> FALSE, v |-> SyntaxError, i |-> 0]
Good(v, i) == [ok |-> TRUE, v |-> v, i |-> i]
At(s, i) == IF i <= Len(s) THEN s[i] ELSE "<eof>"
Lit(s, i, w) == i + Len(w) - 1 <= Len(s) /\ SubSeq(s, i, i + Len(w) - 1) = w

RECURSIVE ParseDigits(_, _, _)
ParseDigits(s, i, acc) ==
  IF At(s, i) \in DigitChars THEN ParseDigits(s, i + 1, 10 * acc + DigitVal(s[i]))
  ELSE Good(JNum(acc), i)

ParseNumber(s, i) ==
  IF At(s, i) = "-"
  THEN IF At(s, i + 1) \in DigitChars
       THEN LET r == ParseDigits(s, i + 1, 0) IN Good(JNum(-(r.v.n)), r.i)
       ELSE Bad
  ELSE IF At(s, i) = "0" /\ At(s, i + 1) \in DigitChars THEN Bad
       ELSE ParseDigits(s, i, 0)

RECURSIVE ParseChars(_, _, _)
ParseChars(s, i, acc) ==
  IF i > Len(s) \/ s[i] = "\\" THEN Bad
  ELSE IF s[i] = "\"" THEN Good(JStr(acc), i + 1)
  ELSE ParseChars(s, i + 1, Append(acc, s[i]))

RECURSIVE ParseValue(_, _)
RECURSIVE ParseItems(_, _, _)
RECURSIVE ParseMembers(_, _, _)
ParseItems(s, i, acc) ==
  LET r == ParseValue(s, i) IN
  IF ~r.ok THEN Bad
  ELSE IF At(s, r.i) = "," THEN ParseItems(s, r.i + 1, Append(acc, r.v))
  ELSE IF At(s, r.i) = "]" THEN Good(JArr(Append(acc, r.v)), r.i + 1)
  ELSE Bad
ParseMembers(s, i, acc) ==
  IF At(s, i) # "\"" THEN Bad
  ELSE LET k == ParseChars(s, i + 1, <<>>) IN
       IF ~k.ok \/ At(s, k.i) # ":" THEN Bad
       ELSE LET r == ParseValue(s, k.i + 1) IN
            IF ~r.ok THEN Bad
            ELSE IF At(s, r.i) = "," THEN ParseMembers(s, r.i + 1, Append(acc, <<k.v.s, r.v>>))
            ELSE IF At(s, r.i) = "}" THEN Good(JObj(Append(acc, <<k.v.s, r.v>>)), r.i + 1)
            ELSE Bad
ParseValue(s, i) ==
  CASE Lit(s, i, <<"n", "u", "l", "l">>) -> Good(JNull, i + 4)
    [] Lit(s, i, <<"t", "r", "u", "e">>) -> Good(JBool(TRUE), i + 4)
    [] Lit(s, i, <<"f", "a", "l", "s", "e">>) -> Good(JBool(FALSE), i + 5)
    [] At(s, i) = "-" \/ At(s, i) \in DigitChars -> ParseNumber(s, i)
    [] At(s, i) = "\"" -> ParseChars(s, i + 1, <<>>)
    [] Lit(s, i, <<"[", "]">>) -> Good(JArr(<<>>), i + 2)
    [] At(s, i) = "[" -> ParseItems(s, i + 1, <<>>)
    [] Lit(s, i, <<"{", "}">>) -> Good(JObj(<<>>), i + 2)
    [] At(s, i) = "{" -> ParseMembers(s, i + 1, <<>>)
    [] OTHER -> Bad

JsonParse(s) ==
  LET r == ParseValue(s, 1) IN
  IF r.ok /\ r.i = Len(s) + 1 THEN r.v ELSE SyntaxError

(***************************************************************************)
(* Request inputs.                                                         *)
(***************************************************************************)
Procs == 1..MaxProcs
Ids == 1..MaxIds
\* An id no create ever generates ('non-existent-id' of the test suite).
NonExistentId == 0

PayloadX == JObj(<< <<(<<"x">>), JNum(1)>> >>)
PayloadY == JArr(<<JNum(2)>>)
\* A payload that is a JSON string.
PayloadS == JStr(<<"s">>)

PostNames == {Undefined, JNull, JStr(<<>>), JStr(<<"a">>)}
PostValues == {Undefined, JNull, JNum(0)}
PostDatas == {Undefined, JNum(0), PayloadX}

Body(n, v, d) == [name |-> n, value |-> v, data |-> d]
NoBody == Body(Undefined, Undefined, Undefined)

\* Bodies with a name in every combination of value and data; bodies without
\* one, alone or with a value (the test suite's { value: 123 }); a body whose
\* data is a string.
PostBodies ==
  {Body(n, v, d) : n \in {m \in PostNames : Truthy(m)}, v \in PostValues, d \in PostDatas}
    \cup {Body(n, Undefined, Undefined) : n \in PostNames}
    \cup {Body(Undefined, JNum(0), Undefined)}
    \cup {Body(JStr(<<"a">>), Undefined, PayloadS)}

\* Patches: none of the fields, one of them, the other two, two that overlap
\* with both, and a null name.
PutBodies ==
  {NoBody,
   Body(Undefined, JNum(100), Undefined),
   Body(JStr(<<"b">>), Undefined, PayloadY),
   Body(JStr(<<"c">>), JNum(7), Undefined),
   Body(JNull, Undefined, Undefined)}

\* The keys of a PUT body besides name, value and data: none, or an id and a
\* created_at (has tells which; the timestamp is one no row was created at).
NoExtra == [has |-> FALSE, id |-> NonExistentId, created_at |-> 0]
Extra(id, at) == [has |-> TRUE, id |-> id, created_at |-> at]

\* The bodies a client can PUT to an id: { value: 100 } together with the id
\* of another item and a created_at, every other patch alone.
PutRequests(id) ==
  {[body |-> b, extra |-> NoExtra] : b \in PutBodies \ {Body(Undefined, JNum(100), Undefined)}}
    \cup {[body |-> Body(Undefined, JNum(100), Undefined), extra |-> Extra(j, MaxClock + 1)] :
            j \in Ids \ {id}}

\* GET /api/items query strings: limit, offset and orderBy as the client sends
\* them (a string of an ORDER BY clause is its sequence of words).
ListLimits == {Undefined, JStr(<<"1">>), JStr(<<"x">>)}
ListOffsets == {Undefined, JStr(<<"1">>)}
ListOrders ==
  {Undefined,
   JStr(<<"created_at", "ASC">>),
   JStr(<<"created_at", ";", "DROP", "TABLE", "items">>)}

Query(l, o, ob) == [limit |-> l, offset |-> o, orderBy |-> ob]

\* Query strings: every limit and offset in the default order, and each other
\* order with the first page of one item.
ListQueries ==
  {Query(l, o, Undefined) : l \in ListLimits, o \in ListOffsets}
    \cup {Query(JStr(<<"1">>), Undefined, ob) : ob \in ListOrders}

(***************************************************************************)
(* The warehouse table and the statements the repository issues.           *)
(* A row is [id, name, value, data, created_at, updated_at]; SQL NULL is   *)
(* JNull in name and value, and SqlNull in the JSON column (a JSON null is *)
(* a value of that column).  The table is a set of rows: nothing in the    *)
(* warehouse makes id a key.                                               *)
(***************************************************************************)
SqlNull == [t |-> "sqlnull"]

\* A generator that can return an id it has returned before.
Uuidv4Reuse(used) == Ids

\* uuidv4(): a random 122-bit id, modelled as any id not returned before.
Uuidv4(used) == Ids \ used

\* create: the record built from the input.
CreateRecord(id, data, now) ==
  [id |-> id,
   name |-> data.name,
   value |-> IF data.value # Undefined /\ data.value # JNull THEN data.value ELSE JNull,
   data |-> IF Truthy(data.data) THEN JStr(JsonStringify(data.data)) ELSE JNull,
   created_at |-> now,
   updated_at |-> now]

\* create: the record returned, { ...record, data: data.data || null }.
CreateReturn(record, data) ==
  [t |-> "item", id |-> record.id, name |-> record.name, value |-> record.value,
   data |-> IF Truthy(data.data) THEN data.data ELSE JNull,
   created_at |-> record.created_at, updated_at |-> record.updated_at]

\* PARSE_JSON(@data): NULL for a NULL parameter, else the JSON value of the text.
ParseJsonSql(p) == IF p = JNull THEN SqlNull ELSE JsonParse(p.s)

\* INSERT INTO t (id, name, value, data, created_at, updated_at) VALUES (...).
InsertRow(params) ==
  [id |-> params.id, name |-> params.name, value |-> params.value,
   data |-> ParseJsonSql(params.data),
   created_at |-> params.created_at, updated_at |-> params.updated_at]

\* The table's schema: name is REQUIRED, the JSON column holds JSON.
RowRejected(row) ==
  row.name \in {JNull, Undefined} \/ row.data = SyntaxError

\* SELECT ... WHERE id = @id (LIMIT 1 takes any one of the rows).
SelectById(tbl, id) == {r \in tbl : r.id = id}

\* update: which SET clauses the statement has besides updated_at.
SetsName(data) == data.name # Undefined
SetsValue(data) == data.value # Undefined
SetsData(data) == data.data # Undefined

\* An update that binds all three columns, null for an omitted field.
UpdateRowAll(row, data, now) ==
  [id |-> row.id,
   name |-> IF SetsName(data) THEN data.name ELSE row.name,
   value |-> IF SetsValue(data) THEN data.value ELSE JNull,
   data |-> IF SetsData(data) THEN ParseJsonSql(JStr(JsonStringify(data.data))) ELSE SqlNull,
   created_at |-> row.created_at,
   updated_at |-> now]

\* An update that stamps created_at instead of updated_at.
UpdateRowStamp(row, data, now) ==
  [id |-> row.id,
   name |-> IF SetsName(data) THEN data.name ELSE row.name,
   value |-> IF SetsValue(data) THEN data.value ELSE row.value,
   data |-> IF SetsData(data) THEN ParseJsonSql(JStr(JsonStringify(data.data))) ELSE row.data,
   created_at |-> now,
   updated_at |-> row.updated_at]

\* An update whose field tests are chained with else: only the first field
\* present in the patch is set.
UpdateRowElseIf(row, data, now) ==
  [id |-> row.id,
   name |-> IF SetsName(data) THEN data.name ELSE row.name,
   value |-> IF ~SetsName(data) /\ SetsValue(data) THEN data.value ELSE row.value,
   data |-> IF ~SetsName(data) /\ ~SetsValue(data) /\ SetsData(data)
            THEN ParseJsonSql(JStr(JsonStringify(data.data))) ELSE row.data,
   created_at |-> row.created_at,
   updated_at |-> now]

\* An update that leaves the row alone when the patch has no field.
UpdateRowSkipEmpty(row, data, now) ==
  IF ~SetsName(data) /\ ~SetsValue(data) /\ ~SetsData(data) THEN row
  ELSE [id |-> row.id,
        name |-> IF SetsName(data) THEN data.name ELSE row.name,
        value |-> IF SetsValue(data) THEN data.value ELSE row.value,
        data |-> IF SetsData(data) THEN ParseJsonSql(JStr(JsonStringify(data.data)))
                 ELSE row.data,
        created_at |-> row.created_at,
        updated_at |-> now]

\* UPDATE t SET updated_at = @updated_at [, name = @name] [, value = @value]
\* [, data = PARSE_JSON(@data)] applied to one matching row.
UpdateRow(row, data, now) ==
  [id |-> row.id,
   name |-> IF SetsName(data) THEN data.name ELSE row.name,
   value |-> IF SetsValue(data) THEN data.value ELSE row.value,
   data |-> IF SetsData(data) THEN ParseJsonSql(JStr(JsonStringify(data.data))) ELSE row.data,
   created_at |-> row.created_at,
   updated_at |-> now]

\* A rewrite that loses the rows it matches.
UpdateStmtDrops(tbl, id, data, now) == {r \in tbl : r.id # id}

\* An UPDATE without its WHERE clause.
UpdateStmtNoWhere(tbl, id, data, now) == {UpdateRow(r, data, now) : r \in tbl}

\* ... WHERE id = @id
UpdateStmt(tbl, id, data, now) ==
  {IF r.id = id THEN UpdateRow(r, data, now) ELSE r : r \in tbl}

\* A DELETE whose predicate is inverted.
DeleteStmtInverted(tbl, id) == {r \in tbl : r.id = id}

\* DELETE FROM t WHERE id = @id
DeleteStmt(tbl, id) == {r \in tbl : r.id # id}

\* A delete that reports whether a row was deleted.
DeleteReturnAffected(affected) == JBool(affected > 0)

\* A delete that returns the number of rows deleted.
DeleteReturnCount(affected) == JNum(affected)

\* delete: the value returned once the statement has completed.
DeleteReturn(affected) == JBool(TRUE)

(***************************************************************************)
(* Reading rows back.  The client delivers a JSON column either as its     *)
(* JSON text or already deserialized; which one is the client's choice.    *)
(***************************************************************************)
Reps == {"text", "parsed"}

ClientRow(row, rep) ==
  [id |-> row.id, name |-> row.name, value |-> row.value,
   data |-> IF row.data = SqlNull THEN JNull
            ELSE IF rep = "text" THEN JStr(JsonStringify(row.data))
            ELSE row.data,
   created_at |-> row.created_at, updated_at |-> row.updated_at]

\* typeof row.data === 'string' ? JSON.parse(row.data) : row.data
DecodeData(d) == IF d.t = "str" THEN JsonParse(d.s) ELSE d

\* findById on the rows the executor returned: null, or the first row decoded
\* (a SyntaxError when JSON.parse throws).
FindByIdResult(rows) ==
  IF rows = <<>> THEN JNull
  ELSE LET row == rows[1]
           d == DecodeData(row.data)
       IN IF d = SyntaxError THEN SyntaxError
          ELSE [t |-> "item", id |-> row.id, name |-> row.name, value |-> row.value,
                data |-> d, created_at |-> row.created_at, updated_at |-> row.updated_at]

\* What the executor can return for findById's SELECT.
SelectResults(tbl, id) ==
  IF SelectById(tbl, id) = {} THEN {<<>>}
  ELSE {<<ClientRow(r, rep)>> : r \in SelectById(tbl, id), rep \in Reps}

(***************************************************************************)
(* Listing and counting.                                                   *)
(***************************************************************************)
NaN == [t |-> "nan"]

\* parseInt(v, 10): a number as it is, the leading decimal digits of a string
\* (after an optional minus sign), NaN when there is none.
ParseInt(v) ==
  CASE v.t = "num" -> v
    [] v.t = "str" ->
         LET neg == At(v.s, 1) = "-"
             start == IF neg THEN 2 ELSE 1
         IN IF At(v.s, start) \in DigitChars
            THEN LET r == ParseDigits(v.s, start, 0) IN
                 IF neg THEN JNum(-(r.v.n)) ELSE r.v
            ELSE NaN
    [] OTHER -> NaN

Default(v, d) == IF v = Undefined THEN d ELSE v

\* findAll: const { limit = 100, offset = 0, orderBy = 'created_at DESC' } = options
FindAllOptions(options) ==
  [limit |-> Default(options.limit, JNum(100)),
   offset |-> Default(options.offset, JNum(0)),
   orderBy |-> Default(options.orderBy, JStr(<<"created_at", "DESC">>))]

\* The ORDER BY clause the warehouse reads in the statement's text: a column
\* with an optional direction; a JSON column cannot be ordered by, and any
\* other text is not an ORDER BY clause.
SortColumns == {"id", "name", "value", "created_at", "updated_at"}
SortSpec(text) ==
  IF Len(text) \in {1, 2} /\ text[1] \in SortColumns
     /\ (Len(text) = 2 => text[2] \in {"ASC", "DESC"})
  THEN [ok |-> TRUE, col |-> text[1], desc |-> (Len(text) = 2 /\ text[2] = "DESC")]
  ELSE [ok |-> FALSE, col |-> "", desc |-> FALSE]

\* The order of column values: NULL first, numbers by value, strings by
\* code point.
Alphabet == <<"a", "b", "c", "x">>
CharRank(c) == CHOOSE i \in 1..Len(Alphabet) : Alphabet[i] = c
RECURSIVE StrLess(_, _)
StrLess(a, b) ==
  IF b = <<>> THEN FALSE
  ELSE IF a = <<>> THEN TRUE
  ELSE IF Head(a) # Head(b) THEN CharRank(Head(a)) < CharRank(Head(b))
  ELSE StrLess(Tail(a), Tail(b))
ValLess(a, b) ==
  CASE a.t = "null" -> b.t # "null"
    [] b.t = "null" -> FALSE
    [] a.t = "num" -> a.n < b.n
    [] a.t = "str" -> StrLess(a.s, b.s)
KeyLess(r1, r2, col) ==
  IF col \in {"id", "created_at", "updated_at"} THEN r1[col] < r2[col]
  ELSE ValLess(r1[col], r2[col])
Before(r1, r2, spec) ==
  IF spec.desc THEN KeyLess(r2, r1, spec.col) ELSE KeyLess(r1, r2, spec.col)

\* The rows of the table in an order the clause allows (rows with equal keys
\* come in any order).
OrderedBy(tbl, spec) ==
  {f \in [1..Cardinality(tbl) -> tbl] :
     /\ \A i, j \in 1..Cardinality(tbl) : i # j => f[i] # f[j]
     /\ \A i \in 1..(Cardinality(tbl) - 1) : ~Before(f[i + 1], f[i], spec)}

Min(a, b) == IF a <= b THEN a ELSE b

\* A page that holds one row more than the limit.
PageOneMore(rows, limit, offset) ==
  SubSeq(rows, offset + 1, Min(Len(rows), offset + limit + 1))

\* LIMIT @limit OFFSET @offset
Page(rows, limit, offset) ==
  SubSeq(rows, offset + 1, Min(Len(rows), offset + limit))

\* The warehouse rejects the statement: text after ORDER BY that is no ORDER BY
\* clause, a limit or offset that is not a non-negative integer.
ListRejected(o) ==
  \/ ~SortSpec(o.orderBy.s).ok
  \/ o.limit.t # "num" \/ o.offset.t # "num"
  \/ (o.limit.t = "num" /\ o.limit.n < 0)
  \/ (o.offset.t = "num" /\ o.offset.n < 0)

\* What the executor can return for findAll's SELECT.
SelectAllResults(tbl, o) ==
  {[i \in 1..Len(Page(f, o.limit.n, o.offset.n)) |->
      ClientRow(Page(f, o.limit.n, o.offset.n)[i], rep)] :
     f \in OrderedBy(tbl, SortSpec(o.orderBy.s)), rep \in Reps}

\* findAll on the rows the executor returned: rows.map(row => ({...row, data:
\* typeof row.data === 'string' ? JSON.parse(row.data) : row.data})).
FindAllResult(rows) ==
  IF \E i \in 1..Len(rows) : DecodeData(rows[i].data) = SyntaxError THEN SyntaxError
  ELSE [t |-> "list",
        xs |-> [i \in 1..Len(rows) |->
                 [t |-> "item", id |-> rows[i].id, name |-> rows[i].name,
                  value |-> rows[i].value, data |-> DecodeData(rows[i].data),
                  created_at |-> rows[i].created_at, updated_at |-> rows[i].updated_at]]]

\* SELECT COUNT(*) as total FROM t
CountRows(tbl) == <<[total |-> Cardinality(tbl)]>>

\* count: rows[0]?.total || 0
CountReturn(rows) == IF rows = <<>> \/ rows[1].total = 0 THEN 0 ELSE rows[1].total

(***************************************************************************)
(* The text of the statements, as the template literals build it: a text   *)
(* is its sequence of words, the words of an interpolated string included. *)
(***************************************************************************)
\* The table identifier: config.projectId, datasetName and tableName, quoted.
FullTableName == "your-project-id.test_dataset.items"

CreateSql ==
  <<"INSERT", "INTO", FullTableName, "(id, name, value, data, created_at, updated_at)",
    "VALUES", "(@id, @name, @value, PARSE_JSON(@data), @created_at, @updated_at)">>

FindAllSql(orderBy) ==
  <<"SELECT", "id, name, value, data, created_at, updated_at", "FROM", FullTableName,
    "ORDER", "BY">> \o orderBy.s \o <<"LIMIT", "@limit", "OFFSET", "@offset">>

FindByIdSql ==
  <<"SELECT", "id, name, value, data, created_at, updated_at", "FROM", FullTableName,
    "WHERE", "id = @id", "LIMIT", "1">>

\* setClauses.join(', ')
UpdateSql(data) ==
  <<"UPDATE", FullTableName, "SET", "updated_at = @updated_at">>
    \o (IF SetsName(data) THEN <<",", "name = @name">> ELSE <<>>)
    \o (IF SetsValue(data) THEN <<",", "value = @value">> ELSE <<>>)
    \o (IF SetsData(data) THEN <<",", "data = PARSE_JSON(@data)">> ELSE <<>>)
    \o <<"WHERE", "id = @id">>

DeleteSql == <<"DELETE", "FROM", FullTableName, "WHERE", "id = @id">>

CountSql == <<"SELECT", "COUNT(*) as total", "FROM", FullTableName>>

(***************************************************************************)
(* The controller.                                                         *)
(***************************************************************************)
\* A check that only catches an omitted name.
NameMissingLoose(name) == name = Undefined

\* if (!name)
NameMissing(name) == ~Truthy(name)

\* sendResponse(res, status, data)
SendResponse(status, data) ==
  [status |-> status, success |-> (status >= 200 /\ status < 300), data |-> data]

\* The global error handler: err.status || err.statusCode || 500.
ErrorResponse == [status |-> 500, success |-> FALSE, data |-> Undefined]

NoResp == [status |-> 0, success |-> FALSE, data |-> Undefined]
NoOpts == [limit |-> Undefined, offset |-> Undefined, orderBy |-> Undefined]
NoLoc == [op |-> "none", id |-> NonExistentId, body |-> NoBody, now |-> 0,
          existing |-> Undefined, affected |-> 0, ret |-> Undefined, opts |-> NoOpts,
          sent |-> 0, extra |-> NoExtra]

\* History of a row's columns: the value the last statement to set each column
\* bound to it (the JSON column as the value that was serialized).
NoCols == [name |-> Undefined, value |-> Undefined, data |-> Undefined, updated_at |-> 0]
Inserted(row) ==
  [name |-> row.name, value |-> row.value,
   data |-> IF row.data = SqlNull THEN JNull ELSE row.data,
   updated_at |-> row.updated_at]
Bound(cols, data, now) ==
  [name |-> IF data.name # Undefined THEN data.name ELSE cols.name,
   value |-> IF data.value # Undefined THEN data.value ELSE cols.value,
   data |-> IF data.data # Undefined THEN data.data ELSE cols.data,
   updated_at |-> now]

VARIABLES
  table,      \* the rows of the warehouse table
  clock,      \* the wall clock new Date() reads
  issued,     \* the ids uuidv4 has returned
  known,      \* the ids clients have received in a 201 response
  pc,         \* per request: where its handler is
  loc,        \* per request: the handler's locals
  resp,       \* per request: the response sent
  nreq,       \* requests started
  deleted,    \* history: ids whose DELETE statement has completed
  written,    \* history: ids an UPDATE statement has matched
  created,    \* history: per id, the input its row was created from
  lastSet,    \* history: per id, what the last statement to set a column bound to it
  mockMode,   \* config.features.enableMockMode
  boot,       \* the server process: where startServer is, its locals and its log
  cloud       \* the warehouse project: whether the dataset and the table exist

\* What the process is configured with and runs in: no request changes it.
env == <<mockMode, boot, cloud>>

vars == <<table, clock, issued, known, pc, loc, resp, nreq, deleted, written, created, lastSet,
          env>>

\* The state the requests start from, whatever the configuration.
Serving ==
  /\ table = {}
  /\ clock = 0
  /\ issued = {}
  /\ known = {}
  /\ pc = [p \in Procs |-> "idle"]
  /\ loc = [p \in Procs |-> NoLoc]
  /\ resp = [p \in Procs |-> NoResp]
  /\ nreq = 0
  /\ deleted = {}
  /\ written = {}
  /\ created = [id \in Ids |-> NoBody]
  /\ lastSet = [id \in Ids |-> NoCols]

\* The server process when startServer is called for the run-th time.
Booting(run) ==
  [pc |-> "start", run |-> run, found |-> [dataset |-> FALSE, table |-> FALSE],
   calls |-> <<>>, failed |-> FALSE, log |-> <<>>]

\* The server process once it listens, dataset and table being there.
Listening ==
  [Booting(1) EXCEPT !.pc = "listening", !.found = [dataset |-> TRUE, table |-> TRUE],
                     !.calls = <<"dataset.exists", "table.exists">>,
                     !.log = <<"Initializing BigQuery...", "BigQuery ready!">>]

\* The project with the dataset and the table, neither of them made by the server.
Provisioned == [dataset |-> TRUE, table |-> TRUE, made |-> [dataset |-> 0, table |-> 0]]

\* The requests of a listening server; ENABLE_MOCK_MODE is not set (or is not
\* 'true').
Init ==
  /\ Serving
  /\ mockMode = FALSE
  /\ boot = Listening
  /\ cloud = Provisioned

\* ENABLE_MOCK_MODE=true.
MockInit ==
  /\ Serving
  /\ mockMode = TRUE
  /\ boot = Listening
  /\ cloud = Provisioned

\* The ids a client can put in a request path.
RequestIds == known \cup {NonExistentId}

\* A response is delivered in the segment that sends it: while a slot holds a
\* response nothing else runs, and Finish frees the slot.
Quiet == \A q \in Procs : pc[q] # "done"

Runs(p, l) == Quiet /\ pc[p] = l

Begin(p) == Quiet /\ pc[p] = "idle" /\ nreq < MaxOps /\ nreq' = nreq + 1

Respond(p, r) == /\ pc' = [pc EXCEPT ![p] = "done"]
                 /\ resp' = [resp EXCEPT ![p] = r]

\* What is left of a handler's frame once it has answered: the request it
\* served (a patch is not kept), what its repository call returned and how
\* many statements it has handed to executeQuery.
Frame(p, affected, ret) ==
  [NoLoc EXCEPT !.op = loc[p].op, !.id = loc[p].id, !.sent = loc[p].sent,
                !.body = IF loc[p].op = "POST" THEN loc[p].body ELSE NoBody,
                !.affected = affected, !.ret = ret]

\* A handler that catches the error and answers as if the call had succeeded.
RejectSwallowed(p) == /\ Respond(p, SendResponse(200, JNull))
                      /\ loc' = [loc EXCEPT ![p] = Frame(p, 0, JNull)]

\* The handler rejects: asyncHandler passes the error to the global handler.
Reject(p) == /\ Respond(p, ErrorResponse)
             /\ loc' = [loc EXCEPT ![p] = Frame(p, 0, Undefined)]

\* The clock advances.
Tick ==
  /\ Quiet
  /\ clock < MaxClock
  /\ clock' = clock + 1
  /\ UNCHANGED <<table, issued, known, pc, loc, resp, nreq, deleted, written, created, lastSet, env>>

\* POST /api/items without a name: 400, the repository is not called.
PostInvalid(p, body) ==
  /\ Begin(p)
  /\ NameMissing(body.name)
  /\ loc' = [loc EXCEPT ![p] = [NoLoc EXCEPT !.op = "POST", !.body = body]]
  /\ Respond(p, SendResponse(400, JNull))
  /\ UNCHANGED <<table, clock, issued, known, deleted, written, created, lastSet, env>>

\* POST /api/items: repository.create draws the id, reads the clock and issues
\* the INSERT.
PostCreate(p, body) ==
  /\ Begin(p)
  /\ ~NameMissing(body.name)
  /\ \E id \in Uuidv4(issued) :
       /\ issued' = issued \cup {id}
       /\ loc' = [loc EXCEPT ![p] = [NoLoc EXCEPT !.op = "POST", !.id = id, !.sent = 1,
                                                   !.body = body, !.now = clock]]
  /\ pc' = [pc EXCEPT ![p] = "insert"]
  /\ UNCHANGED <<table, clock, known, resp, deleted, written, created, lastSet, env>>

\* The INSERT is executed; create returns the record and the controller
\* answers 201.  A row the schema rejects fails the statement.
ExecInsert(p) ==
  /\ Runs(p, "insert")
  /\ LET record == CreateRecord(loc[p].id, loc[p].body, loc[p].now)
         row == InsertRow(record)
     IN IF RowRejected(row)
        THEN /\ Reject(p)
             /\ UNCHANGED <<table, known, created, lastSet>>
        ELSE /\ table' = table \cup {row}
             /\ created' = [created EXCEPT ![loc[p].id] = loc[p].body]
             /\ lastSet' = [lastSet EXCEPT ![loc[p].id] = Inserted(row)]
             /\ loc' = [loc EXCEPT ![p] = Frame(p, 1, CreateReturn(record, loc[p].body))]
             /\ Respond(p, SendResponse(201, CreateReturn(record, loc[p].body)))
             /\ known' = known \cup {loc[p].id}
  /\ UNCHANGED <<clock, issued, nreq, deleted, written, env>>

\* GET /api/items/:id: findById issues its SELECT.
GetStart(p, id) ==
  /\ Begin(p)
  /\ loc' = [loc EXCEPT ![p] = [NoLoc EXCEPT !.op = "GET", !.id = id, !.sent = 1]]
  /\ pc' = [pc EXCEPT ![p] = "find"]
  /\ UNCHANGED <<table, clock, issued, known, resp, deleted, written, created, lastSet, env>>

\* The SELECT is executed; findById returns and the controller answers.
ExecFind(p) ==
  /\ Runs(p, "find")
  /\ \E rows \in SelectResults(table, loc[p].id) :
       LET item == FindByIdResult(rows) IN
       IF item = SyntaxError
       THEN Reject(p)
       ELSE /\ loc' = [loc EXCEPT ![p] = Frame(p, 0, item)]
            /\ Respond(p, IF ~Truthy(item) THEN SendResponse(404, JNull)
                          ELSE SendResponse(200, item))
  /\ UNCHANGED <<table, clock, issued, known, nreq, deleted, written, created, lastSet, env>>

\* PUT /api/items/:id: the handler takes name, value and data of req.body
\* (its other keys stay in req.body, which nothing reads again) and the
\* existence read is issued.
PutStart(p, id, body, extra) ==
  /\ Begin(p)
  /\ loc' = [loc EXCEPT ![p] = [NoLoc EXCEPT !.op = "PUT", !.id = id, !.body = body,
                                                   !.extra = extra, !.sent = 1]]
  /\ pc' = [pc EXCEPT ![p] = "exist"]
  /\ UNCHANGED <<table, clock, issued, known, resp, deleted, written, created, lastSet, env>>

\* DELETE /api/items/:id: the existence read is issued.
DeleteStart(p, id) ==
  /\ Begin(p)
  /\ loc' = [loc EXCEPT ![p] = [NoLoc EXCEPT !.op = "DELETE", !.id = id, !.sent = 1]]
  /\ pc' = [pc EXCEPT ![p] = "exist"]
  /\ UNCHANGED <<table, clock, issued, known, resp, deleted, written, created, lastSet, env>>

\* The existence read's SELECT is executed and findById returns `existing`, of
\* which the handler reads nothing but !existing: that test is what is kept.
ExecExist(p) ==
  /\ Runs(p, "exist")
  /\ \E rows \in SelectResults(table, loc[p].id) :
       LET item == FindByIdResult(rows) IN
       IF item = SyntaxError
       THEN Reject(p)
       ELSE /\ loc' = [loc EXCEPT ![p].existing = JBool(Truthy(item))]
            /\ pc' = [pc EXCEPT ![p] = "existed"]
            /\ UNCHANGED resp
  /\ UNCHANGED <<table, clock, issued, known, nreq, deleted, written, created, lastSet, env>>

\* if (!existing) return sendResponse(res, 404, null, 'Item not found')
ExistNotFound(p) ==
  /\ Runs(p, "existed")
  /\ ~Truthy(loc[p].existing)
  /\ Respond(p, SendResponse(404, JNull))
  /\ loc' = [loc EXCEPT ![p] = Frame(p, 0, Undefined)]
  /\ UNCHANGED <<table, clock, issued, known, nreq, deleted, written, created, lastSet, env>>

\* repository.update reads the clock, builds the statement and issues it.
PutUpdate(p) ==
  /\ Runs(p, "existed")
  /\ loc[p].op = "PUT"
  /\ Truthy(loc[p].existing)
  /\ loc' = [loc EXCEPT ![p].now = clock, ![p].sent = @ + 1]
  /\ pc' = [pc EXCEPT ![p] = "update"]
  /\ UNCHANGED <<table, clock, issued, known, resp, nreq, deleted, written, created, lastSet, env>>

\* The UPDATE is executed; update goes on to issue its re-read (now is not
\* read again).  Setting the REQUIRED name of a row to NULL fails the
\* statement.
ExecUpdate(p) ==
  /\ Runs(p, "update")
  /\ LET matched == SelectById(table, loc[p].id)
         after == UpdateStmt(table, loc[p].id, loc[p].body, loc[p].now)
     IN IF \E r \in after : RowRejected(r)
        THEN /\ Reject(p)
             /\ UNCHANGED <<table, written, lastSet>>
        ELSE /\ table' = after
             /\ loc' = [loc EXCEPT ![p].affected = Cardinality(matched),
                                   ![p].now = 0, ![p].sent = @ + 1]
             /\ written' = IF matched = {} THEN written ELSE written \cup {loc[p].id}
             /\ lastSet' = IF matched = {} THEN lastSet
                           ELSE [lastSet EXCEPT ![loc[p].id] = Bound(@, loc[p].body, loc[p].now)]
             /\ pc' = [pc EXCEPT ![p] = "reread"]
             /\ UNCHANGED resp
  /\ UNCHANGED <<clock, issued, known, nreq, deleted, created, env>>

\* The re-read's SELECT is executed; update returns what findById returned and
\* the controller answers 200 with it.
ExecReread(p) ==
  /\ Runs(p, "reread")
  /\ \E rows \in SelectResults(table, loc[p].id) :
       LET item == FindByIdResult(rows) IN
       IF item = SyntaxError
       THEN Reject(p)
       ELSE /\ loc' = [loc EXCEPT ![p] = Frame(p, loc[p].affected, item)]
            /\ Respond(p, SendResponse(200, item))
  /\ UNCHANGED <<table, clock, issued, known, nreq, deleted, written, created, lastSet, env>>

\* repository.delete issues its statement.
DeleteIssue(p) ==
  /\ Runs(p, "existed")
  /\ loc[p].op = "DELETE"
  /\ Truthy(loc[p].existing)
  /\ pc' = [pc EXCEPT ![p] = "delete"]
  /\ loc' = [loc EXCEPT ![p].sent = @ + 1]
  /\ UNCHANGED <<table, clock, issued, known, resp, nreq, deleted, written, created, lastSet, env>>

\* The DELETE is executed; delete returns and the controller answers 200.
ExecDelete(p) ==
  /\ Runs(p, "delete")
  /\ LET matched == SelectById(table, loc[p].id) IN
       /\ table' = DeleteStmt(table, loc[p].id)
       /\ loc' = [loc EXCEPT ![p] = Frame(p, Cardinality(matched),
                                           DeleteReturn(Cardinality(matched)))]
  /\ deleted' = deleted \cup {loc[p].id}
  /\ lastSet' = IF loc[p].id \in Ids THEN [lastSet EXCEPT ![loc[p].id] = NoCols] ELSE lastSet
  /\ Respond(p, SendResponse(200, JNull))
  /\ UNCHANGED <<clock, issued, known, nreq, written, created, env>>

\* GET /api/items: the controller reads limit, offset and orderBy of the query
\* string and findAll issues its SELECT.
ListStart(p, limit, offset, orderBy) ==
  /\ Begin(p)
  /\ loc' = [loc EXCEPT ![p] =
               [NoLoc EXCEPT !.op = "LIST", !.sent = 1,
                             !.opts = [limit |-> ParseInt(Default(limit, JNum(100))),
                                       offset |-> ParseInt(Default(offset, JNum(0))),
                                       orderBy |-> orderBy]]]
  /\ pc' = [pc EXCEPT ![p] = "list"]
  /\ UNCHANGED <<table, clock, issued, known, resp, deleted, written, created, lastSet, env>>

\* The SELECT is executed; findAll returns the items and the controller calls
\* count (orderBy is not read again).
ExecList(p) ==
  /\ Runs(p, "list")
  /\ LET o == FindAllOptions(loc[p].opts) IN
     IF ListRejected(o)
     THEN Reject(p)
     ELSE \E rows \in SelectAllResults(table, o) :
            LET items == FindAllResult(rows) IN
            IF items = SyntaxError
            THEN Reject(p)
            ELSE /\ loc' = [loc EXCEPT ![p].ret = items, ![p].opts.orderBy = Undefined,
                                       ![p].sent = @ + 1]
                 /\ pc' = [pc EXCEPT ![p] = "count"]
                 /\ UNCHANGED resp
  /\ UNCHANGED <<table, clock, issued, known, nreq, deleted, written, created, lastSet, env>>

\* The COUNT is executed; the controller answers 200 with the items and the
\* pagination.
ExecCount(p) ==
  /\ Runs(p, "count")
  /\ LET total == CountReturn(CountRows(table))
         page == [t |-> "page", items |-> loc[p].ret.xs,
                  pagination |-> [total |-> total, limit |-> loc[p].opts.limit,
                                  offset |-> loc[p].opts.offset]]
     IN /\ loc' = [loc EXCEPT ![p] = Frame(p, Cardinality(table), page)]
        /\ Respond(p, SendResponse(200, page))
  /\ UNCHANGED <<table, clock, issued, known, nreq, deleted, written, created, lastSet, env>>

\* The executor's query fails (transport, auth): the handler rejects and the
\* global error handler answers.
ExecFail(p) ==
  /\ Quiet
  /\ pc[p] \in {"insert", "find", "exist", "update", "reread", "delete", "list", "count"}
  /\ Reject(p)
  /\ UNCHANGED <<table, clock, issued, known, nreq, deleted, written, created, lastSet, env>>

\* The response has been delivered; the slot takes the next request.
Finish(p) ==
  /\ pc[p] = "done"
  /\ pc' = [pc EXCEPT ![p] = "idle"]
  /\ loc' = [loc EXCEPT ![p] = NoLoc]
  /\ resp' = [resp EXCEPT ![p] = NoResp]
  /\ UNCHANGED <<table, clock, issued, known, nreq, deleted, written, created, lastSet, env>>

Next ==
  \/ Tick
  \/ \E p \in Procs, body \in PostBodies : PostInvalid(p, body)
  \/ \E p \in Procs, body \in PostBodies : PostCreate(p, body)
  \/ \E p \in Procs : ExecInsert(p)
  \/ \E p \in Procs, id \in RequestIds : GetStart(p, id)
  \/ \E p \in Procs : ExecFind(p)
  \/ \E p \in Procs, id \in RequestIds :
       \E req \in PutRequests(id) : PutStart(p, id, req.body, req.extra)
  \/ \E p \in Procs, id \in RequestIds : DeleteStart(p, id)
  \/ \E p \in Procs : ExecExist(p)
  \/ \E p \in Procs : ExistNotFound(p)
  \/ \E p \in Procs : PutUpdate(p)
  \/ \E p \in Procs : ExecUpdate(p)
  \/ \E p \in Procs : ExecReread(p)
  \/ \E p \in Procs : DeleteIssue(p)
  \/ \E p \in Procs : ExecDelete(p)
  \/ \E p \in Procs, q \in ListQueries : ListStart(p, q.limit, q.offset, q.orderBy)
  \/ \E p \in Procs : ExecList(p)
  \/ \E p \in Procs : ExecCount(p)
  \/ \E p \in Procs : ExecFail(p)
  \/ \E p \in Procs : Finish(p)

Spec == Init /\ [][Next]_vars

\* The same program started with ENABLE_MOCK_MODE=true.
MockSpec == MockInit /\ [][Next]_vars

(***************************************************************************)
(* Startup (server.js): startServer awaits ensureTableExists, catches what  *)
(* it throws, and calls app.listen.  Each await of a client call is a step  *)
(* that the call's answer or failure ends; the process can be signalled at *)
(* any time and started again.                                             *)
(***************************************************************************)
serving == <<table, clock, issued, known, pc, loc, resp, nreq, deleted, written, created, lastSet>>

\* The projects a server can be started in: a table is in a dataset.
Clouds ==
  {[dataset |-> d, table |-> t, made |-> [dataset |-> 0, table |-> 0]] :
     d \in BOOLEAN, t \in BOOLEAN} \ {[dataset |-> FALSE, table |-> TRUE,
                                        made |-> [dataset |-> 0, table |-> 0]]}

StartupInit ==
  /\ Serving
  /\ mockMode \in BOOLEAN
  /\ boot = Booting(1)
  /\ cloud \in Clouds

\* A test that always asks for the create.
NotThereAlways(exists) == TRUE

\* if (!datasetExists), if (!tableExists)
NotThere(exists) == ~exists

\* A catch block that throws the error on: the process ends on the unhandled
\* rejection and never listens.
Rethrown(b) == [b EXCEPT !.pc = "crashed"]

\* catch (err) { console.warn(...); console.warn(...) } and then app.listen.
Caught(b) ==
  [b EXCEPT !.pc = "listening",
            !.log = @ \o <<"BigQuery initialization warning:", "Continuing anyway">>]

\* ensureTableExists has returned: console.log('BigQuery ready!'), app.listen.
Ready(b) == [b EXCEPT !.pc = "listening", !.log = Append(@, "BigQuery ready!")]

Call(b, name, at) == [b EXCEPT !.pc = at, !.calls = Append(@, name)]

\* startServer: console.log('Initializing BigQuery...'); ensureTableExists
\* issues dataset.exists().
StartServer ==
  /\ boot.pc = "start"
  /\ boot' = Call([boot EXCEPT !.log = Append(@, "Initializing BigQuery...")],
                  "dataset.exists", "datasetExists")
  /\ UNCHANGED <<serving, mockMode, cloud>>

\* dataset.exists() answers: dataset.create() is issued if it is not there,
\* table.exists() otherwise.
DatasetExists ==
  /\ boot.pc = "datasetExists"
  /\ LET b == [boot EXCEPT !.found.dataset = cloud.dataset] IN
     boot' = IF NotThere(cloud.dataset) THEN Call(b, "dataset.create", "datasetCreate")
             ELSE Call(b, "table.exists", "tableExists")
  /\ UNCHANGED <<serving, mockMode, cloud>>

\* dataset.create() completes (it fails on a dataset that exists); table.exists()
\* is issued.
DatasetCreate ==
  /\ boot.pc = "datasetCreate"
  /\ IF cloud.dataset
     THEN /\ boot' = Caught([boot EXCEPT !.failed = TRUE])
          /\ UNCHANGED cloud
     ELSE /\ cloud' = [cloud EXCEPT !.dataset = TRUE, !.made.dataset = @ + 1]
          /\ boot' = Call([boot EXCEPT !.log = Append(@, "Dataset created.")],
                          "table.exists", "tableExists")
  /\ UNCHANGED <<serving, mockMode>>

\* table.exists() answers: table.create({ schema }) is issued if it is not
\* there, ensureTableExists returns otherwise.
TableExists ==
  /\ boot.pc = "tableExists"
  /\ LET b == [boot EXCEPT !.found.table = cloud.table] IN
     boot' = IF NotThere(cloud.table) THEN Call(b, "table.create", "tableCreate")
             ELSE Ready(b)
  /\ UNCHANGED <<serving, mockMode, cloud>>

\* table.create({ schema }) completes (it fails on a table that exists);
\* ensureTableExists returns.
TableCreate ==
  /\ boot.pc = "tableCreate"
  /\ IF cloud.table
     THEN /\ boot' = Caught([boot EXCEPT !.failed = TRUE])
          /\ UNCHANGED cloud
     ELSE /\ cloud' = [cloud EXCEPT !.table = TRUE, !.made.table = @ + 1]
          /\ boot' = Ready([boot EXCEPT !.log = Append(@, "Table created.")])
  /\ UNCHANGED <<serving, mockMode>>

\* The client call that is awaited fails (permission, transport):
\* ensureTableExists throws and startServer catches.
ProvisionFail ==
  /\ boot.pc \in {"datasetExists", "datasetCreate", "tableExists", "tableCreate"}
  /\ boot' = Caught([boot EXCEPT !.failed = TRUE])
  /\ UNCHANGED <<serving, mockMode, cloud>>

\* SIGTERM or SIGINT: process.exit(0).
Signal ==
  /\ boot.pc \notin {"exited", "crashed"}
  /\ boot' = [boot EXCEPT !.pc = "exited"]
  /\ UNCHANGED <<serving, mockMode, cloud>>

\* The process is started again.
Restart ==
  /\ boot.pc \in {"exited", "crashed"}
  /\ boot.run < MaxRuns
  /\ boot' = Booting(boot.run + 1)
  /\ UNCHANGED <<serving, mockMode, cloud>>

\* The steps of startServer.
Provision ==
  \/ StartServer
  \/ DatasetExists
  \/ DatasetCreate
  \/ TableExists
  \/ TableCreate
  \/ ProvisionFail

StartupNext ==
  \/ Provision
  \/ Signal
  \/ Restart

\* A client call that is awaited is answered or fails, and the continuation
\* runs.
StartupSpec == StartupInit /\ [][StartupNext]_vars /\ WF_vars(Provision)

(***************************************************************************)
(* Properties.                                                             *)
(***************************************************************************)
Done(p, op) == pc[p] = "done" /\ loc[p].op = op
Answered(p, op) == Done(p, op) /\ resp[p].status # 500
\* null for an absent field.
NullFor(v) == IF v = Undefined THEN JNull ELSE v
\* What a reader sees of a stored JSON column.
Visible(d) == IF d = SqlNull THEN JNull ELSE d
RowsOf(tbl, id) == {r \in tbl : r.id = id}

\* C1: findById(create(input).id), with no other write to the id in between,
\* returns a record whose name, value and data are the input's (null for an
\* omitted or null field, 0 for value 0) and whose created_at = updated_at.
RoundTrip ==
  \A p \in Procs :
    (/\ Answered(p, "GET")
     /\ loc[p].id \in Ids
     /\ created[loc[p].id] # NoBody
     /\ loc[p].id \notin written
     /\ loc[p].id \notin deleted)
    => /\ resp[p].status = 200
       /\ resp[p].data.name = created[loc[p].id].name
       /\ resp[p].data.value = NullFor(created[loc[p].id].value)
       /\ resp[p].data.data = NullFor(created[loc[p].id].data)
       /\ resp[p].data.created_at = resp[p].data.updated_at

\* C2: an UPDATE statement that matches a row gives every field present in
\* the patch the patch's value and leaves every omitted field (and id and
\* created_at) as it was.
PartialUpdatePreserves ==
  [][\A p \in Procs :
       (pc[p] = "update" /\ pc'[p] = "reread")
       => \A r \in RowsOf(table, loc[p].id) :
            /\ RowsOf(table', loc[p].id) # {}
            /\ \A r2 \in RowsOf(table', loc[p].id) :
              /\ r2.created_at = r.created_at
              /\ r2.name = IF loc[p].body.name # Undefined THEN loc[p].body.name ELSE r.name
              /\ r2.value = IF loc[p].body.value # Undefined THEN loc[p].body.value ELSE r.value
              /\ IF loc[p].body.data # Undefined
                 THEN Visible(r2.data) = loc[p].body.data
                 ELSE r2.data = r.data]_vars

\* C2 witness: update(id, {value: 100}) has run on a row created with name 'a'
\* and data {x:1}: the row has value 100 and still name 'a' and data {x:1}.
PartialUpdateWitness ==
  \E p \in Procs :
    /\ pc[p] = "reread"
    /\ loc[p].affected = 1
    /\ \E r \in RowsOf(table, loc[p].id) :
         /\ r.name = JStr(<<"a">>)
         /\ r.data = PayloadX
         /\ r.value = JNum(100)
         /\ created[r.id].value # JNum(100)

\* C3: once a DELETE statement for an id has completed, the table holds no
\* row of that id, and a GET of it that is answered is answered 404 by a
\* findById that returned null.
DeletionRemovesVisibility ==
  /\ \A id \in deleted : RowsOf(table, id) = {}
  /\ \A p \in Procs :
       (Answered(p, "GET") /\ loc[p].id \in deleted)
       => resp[p].status = 404 /\ ~resp[p].success /\ loc[p].ret = JNull

\* C3 witness: a GET of a deleted id has been answered 404.
DeletionWitness ==
  \E p \in Procs :
    Done(p, "GET") /\ loc[p].id \in deleted /\ resp[p].status = 404

\* C4: on an id no live row has, findById returns null, update and delete
\* both report not-found, and none of them changes the table.
NotFoundConsistent ==
  [][\A p \in Procs :
       (/\ Quiet
        /\ RowsOf(table, loc[p].id) = {}
        /\ pc[p] \in {"find", "exist", "update", "reread", "delete"}
        /\ pc'[p] # pc[p]
        /\ resp'[p].status # 500)
       => /\ table' = table
          /\ pc[p] = "find" => loc'[p].ret = JNull /\ resp'[p].status = 404
          /\ pc[p] = "exist" => loc'[p].existing = JBool(FALSE)
          /\ pc[p] = "reread" => loc'[p].ret = JNull
          /\ pc[p] = "delete" => loc'[p].ret # JBool(TRUE) /\ resp'[p].status = 404]_vars

\* C5: every UPDATE statement that matches a row leaves the row's updated_at
\* later than it was.
UpdatedAtAdvances ==
  [][\A p \in Procs :
       (pc[p] = "update" /\ pc'[p] = "reread")
       => \A r \in RowsOf(table, loc[p].id) :
            \A r2 \in RowsOf(table', loc[p].id) : r2.updated_at > r.updated_at]_vars

\* C6: every row of the table has created_at <= updated_at.
CreatedBeforeUpdated ==
  \A r \in table : r.created_at <= r.updated_at

\* C6 witness: a row that was updated at a later instant than it was created,
\* while another request is in flight.
CreatedBeforeUpdatedWitness ==
  /\ \E r \in table : r.id \in written /\ r.created_at < r.updated_at
  /\ \E p \in Procs : pc[p] \in {"insert", "update", "delete"}

\* C7: no two rows have the same id, and the id of a create in flight has
\* never been assigned before: no other create in flight has it, no row has
\* it, no row that was deleted had it, and no client has seen it.
IdsUnique ==
  /\ \A r1, r2 \in table : r1.id = r2.id => r1 = r2
  /\ \A p \in Procs :
       pc[p] = "insert"
       => /\ RowsOf(table, loc[p].id) = {}
          /\ loc[p].id \notin deleted
          /\ loc[p].id \notin known
          /\ \A q \in Procs \ {p} : pc[q] = "insert" => loc[q].id # loc[p].id

\* C7 witness: a create is in flight after a row has been deleted.
IdsUniqueWitness ==
  /\ deleted # {}
  /\ \E p \in Procs : pc[p] = "insert"

\* C8: a POST whose name is missing or empty is answered 400 with success
\* false, draws no id and issues no INSERT; no INSERT in flight and no row
\* created has a missing or empty name.
NameRequired ==
  /\ \A p \in Procs : pc[p] = "insert" => Truthy(loc[p].body.name)
  /\ \A p \in Procs :
       (Done(p, "POST") /\ ~Truthy(loc[p].body.name))
       => /\ resp[p].status = 400
          /\ ~resp[p].success
          /\ loc[p].id = NonExistentId
          /\ loc[p].affected = 0
  /\ \A id \in Ids : created[id] # NoBody => Truthy(created[id].name)

\* C8 witness: a POST with a value and no name has been answered 400 while
\* the table holds a row.
NameRequiredWitness ==
  \E p \in Procs :
    /\ Done(p, "POST")
    /\ loc[p].body = Body(Undefined, JNum(0), Undefined)
    /\ resp[p].status = 400
    /\ table # {}

\* C9: a DELETE statement that completes makes delete return true, whether or
\* not a row had the id; with no row of that id it leaves the table as it was.
DeleteReturnsTrue ==
  [][\A p \in Procs :
       (pc[p] = "delete" /\ pc'[p] = "done" /\ resp'[p].status # 500)
       => /\ loc'[p].ret = JBool(TRUE)
          /\ resp'[p].status = 200
          /\ RowsOf(table', loc[p].id) = {}
          /\ RowsOf(table, loc[p].id) = {} => table' = table]_vars

\* C9 witness: a second delete of an id has returned true, having matched no
\* row.
DeleteReturnsTrueWitness ==
  \E p \in Procs :
    /\ Done(p, "DELETE")
    /\ loc[p].id \in deleted
    /\ loc[p].ret = JBool(TRUE)
    /\ loc[p].affected = 0
    /\ resp[p].status = 200

\* C10: update returns null after its UPDATE statement matched a row only if
\* a DELETE statement for the same id has run in between.
UpdateNullOnlyAfterDelete ==
  \A p \in Procs :
    (Answered(p, "PUT") /\ loc[p].affected >= 1 /\ loc[p].ret = JNull)
    => loc[p].id \in deleted

\* C10 witness: an update whose UPDATE statement matched and modified a row
\* has returned null, a delete of the id having run before the re-read.
UpdateNullWitness ==
  \E p \in Procs :
    /\ Done(p, "PUT")
    /\ loc[p].affected = 1
    /\ loc[p].id \in written
    /\ loc[p].ret = JNull
    /\ resp[p].status = 200

\* C11: every column of a live row holds the value bound by the statement that
\* set it last, in the order the statements were executed: of two concurrent
\* updates of an id, a column only one patch sets has that patch's value, a
\* column both set has the value of the UPDATE executed last (updated_at
\* included), and a column neither sets is as it was.
LastWriterPerColumn ==
  \A r \in table :
    /\ r.name = lastSet[r.id].name
    /\ r.value = lastSet[r.id].value
    /\ Visible(r.data) = lastSet[r.id].data
    /\ r.updated_at = lastSet[r.id].updated_at

\* C11 witness: two updates of one id are in flight together and both UPDATE
\* statements have matched the row: {name:'b', data:[2]} first, then
\* {name:'c', value:7}; the row has data [2], value 7 and name 'c'.
LastWriterWitness ==
  \E p, q \in Procs :
    /\ p # q
    /\ pc[p] = "reread" /\ pc[q] = "reread"
    /\ loc[p].id = loc[q].id
    /\ loc[p].affected = 1 /\ loc[q].affected = 1
    /\ \E r \in RowsOf(table, loc[p].id) :
         /\ r.name = JStr(<<"c">>)
         /\ r.value = JNum(7)
         /\ r.data = PayloadY
         /\ created[r.id].name = JStr(<<"a">>)

Max(a, b) == IF a >= b THEN a ELSE b
\* The rows of the table an item was read from.
RowsFor(tbl, item) ==
  {r \in tbl : /\ r.id = item.id /\ r.name = item.name /\ r.value = item.value
               /\ Visible(r.data) = item.data
               /\ r.created_at = item.created_at /\ r.updated_at = item.updated_at}

\* C12: a findAll whose SELECT completes returns min(limit, max(0, n - offset))
\* items of the n rows of the table, so at most limit and none for an empty
\* table; they are distinct rows, in the requested order (created_at
\* descending when none is requested), and the k-th item is the row at
\* position offset + k of that order; the count that completes is the number
\* of rows of the table, whatever limit and offset are, and the answer is 200.
PaginationBounds ==
  [][\A p \in Procs :
       /\ (pc[p] = "list" /\ pc'[p] = "count")
          => LET o == FindAllOptions(loc[p].opts)
                 spec == SortSpec(o.orderBy.s)
                 items == loc'[p].ret.xs
             IN /\ Len(items) <= o.limit.n
                /\ Len(items) = Min(o.limit.n, Max(0, Cardinality(table) - o.offset.n))
                /\ \A i \in 1..Len(items) : RowsFor(table, items[i]) # {}
                /\ \A i, j \in 1..Len(items) : i # j => items[i].id # items[j].id
                /\ \A i \in 1..(Len(items) - 1) : ~Before(items[i + 1], items[i], spec)
                /\ loc[p].opts.orderBy = Undefined
                   => \A i \in 1..(Len(items) - 1) :
                        items[i].created_at >= items[i + 1].created_at
                /\ \A i \in 1..Len(items) :
                     /\ Cardinality({r \in table : Before(r, items[i], spec)})
                          <= o.offset.n + i - 1
                     /\ o.offset.n + i
                          <= Cardinality({r \in table : ~Before(items[i], r, spec)})
       /\ (pc[p] = "count" /\ pc'[p] = "done" /\ resp'[p].status # 500)
          => /\ resp'[p].status = 200
             /\ resp'[p].data.items = loc[p].ret.xs
             /\ resp'[p].data.pagination.total = Cardinality(table)
             /\ table = {} => resp'[p].data.pagination.total = 0]_vars

\* C12 witness: findAll({limit: 1, offset: 1}) on a table of two rows created
\* at different instants has returned one item, the older row.
PaginationWitness ==
  \E p \in Procs :
    /\ pc[p] = "count"
    /\ nreq = 3
    /\ loc[p].opts.limit = JNum(1) /\ loc[p].opts.offset = JNum(1)
    /\ Cardinality(table) = 2
    /\ Len(loc[p].ret.xs) = 1
    /\ \E r \in table : r.created_at > loc[p].ret.xs[1].created_at

\* A request has handed a statement to the warehouse client (client.query).
Querying(p) ==
  pc[p] \in {"insert", "find", "exist", "update", "reread", "delete", "list", "count"}

\* C13: with the mock-mode flag set, no repository operation hands a
\* statement to the warehouse client.
MockModeIssuesNoQuery ==
  mockMode => \A p \in Procs : ~Querying(p)

\* startServer has gone through its try block and listens.
Succeeded(b) == b.pc = "listening" /\ ~b.failed
\* The step makes a create call.
CallsCreate(b, c) ==
  /\ Len(c.calls) = Len(b.calls) + 1
  /\ c.calls[Len(c.calls)] \in {"dataset.create", "table.create"}

\* C14: ensureTableExists issues dataset.create only when the dataset is not
\* there and table.create only when the table is not there; while both are
\* there no step of a run issues a create or changes them; a run that succeeds
\* leaves both there, and over all the runs neither is created more than once.
ProvisionIdempotent ==
  [][/\ boot'.pc = "datasetCreate" => ~cloud.dataset
     /\ boot'.pc = "tableCreate" => ~cloud.table
     /\ (cloud.dataset /\ cloud.table)
        => /\ cloud' = cloud
           /\ boot'.pc \notin {"datasetCreate", "tableCreate"}
           /\ ~CallsCreate(boot, boot')
     /\ Succeeded(boot') => cloud'.dataset /\ cloud'.table
     /\ cloud'.made.dataset <= 1 /\ cloud'.made.table <= 1]_vars

\* C14 witness: a later run has succeeded with the two exists calls alone, an
\* earlier run having created the dataset and the table.
ProvisionIdempotentWitness ==
  /\ boot.run > 1
  /\ Succeeded(boot)
  /\ boot.calls = <<"dataset.exists", "table.exists">>
  /\ cloud.made = [dataset |-> 1, table |-> 1]

Warned(b) == \E i \in 1..Len(b.log) : b.log[i] = "BigQuery initialization warning:"

\* C15: startServer never ends on what ensureTableExists throws; it listens
\* only once the attempt has finished, with the warning logged exactly when
\* the attempt failed and both dataset and table there when it did not; and
\* every run that is not signalled comes to listen.
ProvisioningNonFatal ==
  /\ [](boot.pc # "crashed")
  /\ [](boot.pc = "listening"
        => /\ boot.calls # <<>>
           /\ Warned(boot) <=> boot.failed
           /\ ~boot.failed => (cloud.dataset /\ cloud.table
                               /\ boot.log[Len(boot.log)] = "BigQuery ready!"))
  /\ \A r \in 1..MaxRuns :
       (boot.run = r /\ boot.pc = "start")
         ~> ((boot.run = r /\ boot.pc = "listening") \/ boot.pc = "exited" \/ boot.run > r)

\* C15 witness: table.create has failed, the warning is logged and the server
\* listens without the table.
ProvisioningNonFatalWitness ==
  /\ boot.pc = "listening"
  /\ boot.failed
  /\ Warned(boot)
  /\ boot.calls[Len(boot.calls)] = "table.create"
  /\ ~cloud.table

\* The statement a request has in flight is one the warehouse rejects.
StatementRejected(p) ==
  \/ /\ pc[p] = "insert"
     /\ RowRejected(InsertRow(CreateRecord(loc[p].id, loc[p].body, loc[p].now)))
  \/ /\ pc[p] = "update"
     /\ \E r \in UpdateStmt(table, loc[p].id, loc[p].body, loc[p].now) : RowRejected(r)
  \/ /\ pc[p] = "list"
     /\ ListRejected(FindAllOptions(loc[p].opts))

\* C16: when the statement a request has handed to the executor fails, the
\* table is as it was, the request hands no statement to the executor again
\* (neither that one nor a further one), its repository call returns nothing
\* (no record, no re-read item, no true), and the answer has a non-2xx status
\* and success false.
FailuresPropagate ==
  [][\A p \in Procs :
       (Querying(p) /\ pc'[p] # pc[p] /\ (ExecFail(p) \/ StatementRejected(p)))
       => /\ table' = table
          /\ pc'[p] = "done"
          /\ loc'[p].sent = loc[p].sent
          /\ loc'[p].ret = Undefined
          /\ resp'[p].data = Undefined
          /\ ~(resp'[p].status >= 200 /\ resp'[p].status < 300)
          /\ ~resp'[p].success]_vars

\* C16 witness: the UPDATE of a PUT on a live row has failed: the request has
\* handed two statements to the executor (no re-read) and is answered 500.
FailuresPropagateWitness ==
  \E p \in Procs :
    /\ Done(p, "PUT")
    /\ loc[p].sent = 2
    /\ resp[p].status = 500
    /\ RowsOf(table, loc[p].id) # {}

\* The text of the statement a request has handed to the executor.
SqlText(p) ==
  CASE pc[p] = "insert" -> CreateSql
    [] pc[p] \in {"find", "exist", "reread"} -> FindByIdSql
    [] pc[p] = "update" -> UpdateSql(loc[p].body)
    [] pc[p] = "delete" -> DeleteSql
    [] pc[p] = "list" -> FindAllSql(FindAllOptions(loc[p].opts).orderBy)
    [] pc[p] = "count" -> CountSql

\* The texts that depend on nothing but the table identifier, on which fields
\* a patch has, and on a sort column and direction of a fixed set.
Present == {Undefined, JNull}
ServerTexts ==
  {CreateSql, FindByIdSql, DeleteSql, CountSql}
    \cup {UpdateSql(Body(n, v, d)) : n \in Present, v \in Present, d \in Present}
    \cup {FindAllSql(JStr(<<c, d>>)) :
            c \in {"id", "name", "value", "data", "created_at", "updated_at"},
            d \in {"ASC", "DESC"}}

\* C17: the text of every statement handed to the executor is one of the
\* texts fixed by the server: no value of the request is part of it.
NoCallerTextInSql ==
  \A p \in Procs : Querying(p) => SqlText(p) \in ServerTexts

\* C18: a PUT that is answered 200 carries an item, not null, and the item's
\* id is the id of the request.
PutOkCarriesItem ==
  \A p \in Procs :
    (Done(p, "PUT") /\ resp[p].status = 200)
    => /\ resp[p].data # JNull
       /\ resp[p].data.id = loc[p].id

\* C19: a DELETE is answered 200 only if its DELETE statement matched a row,
\* so that no two DELETE requests are answered 200 for one item.
DeleteOkOnlyWhenMatched ==
  \A p \in Procs :
    (Done(p, "DELETE") /\ resp[p].status = 200) => loc[p].affected >= 1

\* C20: the UPDATE of a patch without name, value and data is the request's
\* second statement (after the existence read), its text sets updated_at
\* alone, it gives the matching row the update's timestamp and changes
\* nothing else in the table, and it does not fail for being empty: the
\* update goes on to its re-read.
EmptyPatchRefreshes ==
  [][\A p \in Procs :
       (/\ pc[p] = "update" /\ pc'[p] # pc[p]
        /\ loc[p].body = NoBody
        /\ ~ExecFail(p))
       => /\ pc'[p] = "reread"
          /\ loc[p].sent = 2 /\ loc'[p].sent = 3
          /\ SqlText(p) = <<"UPDATE", FullTableName, "SET", "updated_at = @updated_at",
                            "WHERE", "id = @id">>
          /\ table' = {IF r.id = loc[p].id THEN [r EXCEPT !.updated_at = loc[p].now] ELSE r :
                         r \in table}]_vars

\* C20 witness: update(id, {}) has run its UPDATE on a row created from
\* {name:'a', value:0, data:{x:1}}: the row has a later updated_at and the
\* name, value and data it was created with.
EmptyPatchWitness ==
  \E p \in Procs :
    /\ pc[p] = "reread"
    /\ nreq = 2
    /\ loc[p].body = NoBody
    /\ loc[p].affected = 1
    /\ \E r \in RowsOf(table, loc[p].id) :
         /\ r.updated_at > r.created_at
         /\ r.name = JStr(<<"a">>) /\ r.value = JNum(0) /\ r.data = PayloadX

\* The findAll of a GET /api/items without a query string.
AllRows == SelectAllResults(table, FindAllOptions(NoOpts))

\* C21: whatever rows the warehouse client returns for the SELECT of findById
\* or of findAll, in either representation of the JSON column, decoding raises
\* no error and every item returned carries the data of the row it was read
\* from; the two representations of a row decode to the same value.
DefensiveDecoding ==
  /\ \A id \in Ids : \A rows \in SelectResults(table, id) :
       rows # <<>>
       => LET item == FindByIdResult(rows) IN
          /\ item # SyntaxError
          /\ \E r \in RowsOf(table, id) : item.data = Visible(r.data)
  /\ \A rows \in AllRows :
       LET items == FindAllResult(rows) IN
       /\ items # SyntaxError
       /\ \A i \in 1..Len(rows) :
            \E r \in RowsOf(table, rows[i].id) : items.xs[i].data = Visible(r.data)
  /\ \A r \in table :
       DecodeData(ClientRow(r, "text").data) = DecodeData(ClientRow(r, "parsed").data)

\* The id and the created_at of every row.
Identities(tbl) == {<<r.id, r.created_at>> : r \in tbl}
\* The rows of other ids.
Others(tbl, id) == {r \in tbl : r.id # id}

\* C22: every step of a PUT or of a DELETE on an id, its UPDATE or DELETE
\* statement included, leaves the rows of every other id as they were; every
\* step of a PUT leaves each row its id and its created_at, whatever the
\* patch and whatever id or created_at the request body carries besides; and
\* a DELETE's statement changes no row that it leaves.
WritesConfined ==
  [][\A p \in Procs :
       (loc[p].op \in {"PUT", "DELETE"} /\ pc'[p] # pc[p])
       => /\ Others(table', loc[p].id) = Others(table, loc[p].id)
          /\ loc[p].op = "PUT"
             => /\ Identities(table') = Identities(table)
                /\ Cardinality(table') = Cardinality(table)
          /\ loc[p].op = "DELETE" => table' \subseteq table
          /\ pc[p] \notin {"update", "delete"} => table' = table]_vars

\* C22 witness: the UPDATE of a PUT on one of two rows has matched it, the
\* body being { value: 100 } with the id of the other row and a created_at:
\* the row has value 100 and its own id and created_at, and the other row is
\* as it was created.
WritesConfinedWitness ==
  \E p \in Procs :
    /\ pc[p] = "reread"
    /\ loc[p].affected = 1
    /\ loc[p].extra.has
    /\ loc[p].extra.id # loc[p].id
    /\ \E r \in RowsOf(table, loc[p].id) :
         /\ r.value = JNum(100)
         /\ r.created_at # loc[p].extra.created_at
         /\ created[r.id].value # JNum(100)
    /\ \E r \in RowsOf(table, loc[p].extra.id) :
         /\ r.updated_at = r.created_at
         /\ r.value = NullFor(created[r.id].value)
         /\ Visible(r.data) = NullFor(created[r.id].data)
====
